---------------------------- MODULE Spec2Model ----------------------------
(***************************************************************************)
(* VATSIM flight-plan lookup: the VATSpy reference-data store              *)
(* (utils/vatspy-parser) and the page's weather, ETA and FIR functions     *)
(* (app/page.tsx) as a state machine.                                      *)
(*                                                                         *)
(* A JavaScript string is a sequence of one-character strings; a value     *)
(* that may be null/undefined is a sequence of length at most one          *)
(* (<<>> is null, <<v>> is v); a Map is its entries in insertion order     *)
(* together with the identity of the Map object.                           *)
(***************************************************************************)
EXTENDS Integers, Sequences, FiniteSets, TLC

VARIABLES
    datasetLines,    \* the lines of the file served at /vatspy-data/VATSpy.dat
    cachedAirports,  \* module variable: <<>> (null) or <<Map>>
    pc,              \* per caller: where its parseVatspyData call stands
    request,         \* per caller: the exported function it called, with arguments
    airports,        \* per caller: the local Map of its parseVatspyData call
    returned,        \* per caller: the value its last call resolved with
    fetchCount,      \* number of fetch('/vatspy-data/VATSpy.dat') issued
    parseCount,      \* number of executions of the line loop
    nextMapId,       \* identity given to the next `new Map()`
    decoded,         \* the decoded METAR handed to getFlightCategory
    flightCategory,  \* <<>> or <<what getFlightCategory returned>>
    pilot,           \* the VatsimPilot handed to calculateETA
    etaData,         \* what the last calculateETA resolved with: <<>> is null
    etaResolved,     \* whether a calculateETA call has resolved
    boundaries,      \* the features served at /vatspy-data/Boundaries.geojson
    firCall,         \* the detectCurrentFIR call: position, argument, promises
    currentFIR,      \* what the last detectCurrentFIR resolved with: <<>> is null
    boundariesFetchCount,  \* number of fetch('/vatspy-data/Boundaries.geojson')
    firNamesFetchCount,    \* number of fetches of VATSpy.dat by parseFIRNames
    bearing,         \* calculateBearing: `bearing` before it is normalized, in steps
    rotation,        \* <<>> or <<what calculateBearing returned>>, in steps
    displayedPilot,  \* the page's `pilot` state while a flight is tracked: <<>> is null
    autoRefresh,     \* the page's `autoRefresh` state
    error,           \* the page's `error` state
    loading,         \* the page's `loading` state: a search is under way
    refreshIntervalRef,  \* <<>> (null) or <<the pilot the interval callback closed over>>
    effectDue,       \* autoRefresh or pilot changed and the effect has not run yet
    inFlight,        \* refresh requests that were sent and are not answered yet
    requestCount,    \* number of refreshPilotData calls so far
    shownRequest,    \* the refresh request whose data is displayed: 0 is a search
    feed             \* what data.vatsim.net serves of the tracked callsign: <<>> is nothing

storeVars == <<datasetLines, cachedAirports, pc, request, airports, returned,
               fetchCount, parseCount, nextMapId>>

weatherVars == <<decoded, flightCategory>>

etaVars == <<pilot, etaData, etaResolved>>

firVars == <<boundaries, firCall, currentFIR, boundariesFetchCount, firNamesFetchCount>>

mapVars == <<bearing, rotation>>

refreshVars == <<displayedPilot, autoRefresh, error, loading, refreshIntervalRef,
                 effectDue, inFlight, requestCount, shownRequest, feed>>

pageVars == <<weatherVars, etaVars, firVars, mapVars, refreshVars>>

vars == <<storeVars, pageVars>>

-----------------------------------------------------------------------------
(* Bounds *)

MaxLines == 3      \* lines of the dataset text
MaxLimit == 2      \* largest `limit` passed to searchAirportsByName

Callers == {"c1", "c2"}

-----------------------------------------------------------------------------
(* Strings *)

WhiteSpace == {" ", "\t", "\r", "\n"}

Digits == {"0", "1", "2", "3", "4", "5", "6", "7", "8", "9"}

DigitValue(c) ==
    CASE c = "0" -> 0 [] c = "1" -> 1 [] c = "2" -> 2 [] c = "3" -> 3
      [] c = "4" -> 4 [] c = "5" -> 5 [] c = "6" -> 6 [] c = "7" -> 7
      [] c = "8" -> 8 [] c = "9" -> 9

UpperChar(c) ==
    CASE c = "a" -> "A" [] c = "b" -> "B" [] c = "j" -> "J" [] c = "k" -> "K"
      [] OTHER -> c

LowerChar(c) ==
    CASE c = "A" -> "a" [] c = "B" -> "b" [] c = "J" -> "j" [] c = "K" -> "k"
      [] OTHER -> c

toUpperCase(s) == [i \in 1..Len(s) |-> UpperChar(s[i])]

toLowerCase(s) == [i \in 1..Len(s) |-> LowerChar(s[i])]

\* String.prototype.trim
trim(s) ==
    LET keep == {i \in 1..Len(s) : s[i] \notin WhiteSpace}
    IN  IF keep = {} THEN <<>>
        ELSE LET lo == CHOOSE i \in keep : \A j \in keep : i <= j
                 hi == CHOOSE i \in keep : \A j \in keep : j <= i
             IN  SubSeq(s, lo, hi)

startsWith(s, p) == Len(s) >= Len(p) /\ SubSeq(s, 1, Len(p)) = p

endsWith(s, p) == Len(s) >= Len(p) /\ SubSeq(s, Len(s) - Len(p) + 1, Len(s)) = p

\* String.prototype.includes
includes(s, t) ==
    \E i \in 0..(Len(s) - Len(t)) : SubSeq(s, i + 1, i + Len(t)) = t

\* String.prototype.split with a one-character separator
split(s, sep) ==
    LET cuts == {i \in 1..Len(s) : s[i] = sep}
        bounds == <<0>> \o [k \in 1..Cardinality(cuts) |->
                      CHOOSE i \in cuts : Cardinality({j \in cuts : j < i}) = k - 1]
                  \o <<Len(s) + 1>>
    IN  [k \in 1..(Cardinality(cuts) + 1) |-> SubSeq(s, bounds[k] + 1, bounds[k + 1] - 1)]

\* The integer value of a sequence of digits
RECURSIVE DigitsValue(_)
DigitsValue(ds) ==
    IF ds = <<>> THEN 0
    ELSE 10 * DigitsValue(SubSeq(ds, 1, Len(ds) - 1)) + DigitValue(ds[Len(ds)])

\* parseFloat over texts without a decimal point or exponent: leading white
\* space is skipped, an optional sign and the longest run of digits are read,
\* anything after it is ignored; with no digit the result is NaN.
parseFloat(s) ==
    LET start   == IF \E i \in 1..Len(s) : s[i] \notin WhiteSpace
                   THEN CHOOSE i \in 1..Len(s) :
                           /\ s[i] \notin WhiteSpace
                           /\ \A j \in 1..(i - 1) : s[j] \in WhiteSpace
                   ELSE Len(s) + 1
        signed  == start <= Len(s) /\ s[start] \in {"-", "+"}
        first   == IF signed THEN start + 1 ELSE start
        stop    == IF \E i \in first..Len(s) : s[i] \notin Digits
                   THEN CHOOSE i \in first..Len(s) :
                           /\ s[i] \notin Digits
                           /\ \A j \in first..(i - 1) : s[j] \in Digits
                   ELSE Len(s) + 1
        magnitude == DigitsValue(SubSeq(s, first, stop - 1))
    IN  IF stop = first
        THEN [isNaN |-> TRUE, value |-> 0]
        ELSE [isNaN |-> FALSE,
              value |-> IF signed /\ s[start] = "-" THEN 0 - magnitude ELSE magnitude]

-----------------------------------------------------------------------------
(* Map<string, VatspyAirport>: the entries in insertion order *)

has(entries, key) == \E i \in 1..Len(entries) : entries[i].icao = key

\* Map.prototype.get: <<>> when the key is absent
get(entries, key) ==
    IF has(entries, key)
    THEN <<entries[CHOOSE i \in 1..Len(entries) : entries[i].icao = key]>>
    ELSE <<>>

\* Map.prototype.set: a present key keeps its place and takes the new value
set(entries, airport) ==
    IF has(entries, airport.icao)
    THEN [i \in 1..Len(entries) |->
             IF entries[i].icao = airport.icao THEN airport ELSE entries[i]]
    ELSE Append(entries, airport)

-----------------------------------------------------------------------------
(* parseVatspyData: the line loop *)

AirportsHeader == <<"[", "A", "i", "r", "p", "o", "r", "t", "s", "]">>

\* Empty lines and comments
IsSkippedLine(trimmedLine) ==
    trimmedLine = <<>> \/ startsWith(trimmedLine, <<";">>)

IsSectionHeader(trimmedLine) ==
    startsWith(trimmedLine, <<"[">>) /\ endsWith(trimmedLine, <<"]">>)

\* Variant: a section header other than [Airports] does not end the section
SectionKeptAfterHeader(inAirportsSection, trimmedLine) ==
    inAirportsSection \/ trimmedLine = AirportsHeader

\* The value given to inAirportsSection at a section header
SectionAfterHeader(inAirportsSection, trimmedLine) ==
    trimmedLine = AirportsHeader

MinFields == 7

HasAirportFields(parts) == Len(parts) >= MinFields

\* ICAO|Name|Lat|Lon|IATA|FIR|IsPseudo
AirportOfParts(parts) ==
    [icao      |-> trim(parts[1]),
     name      |-> trim(parts[2]),
     latitude  |-> parseFloat(parts[3]),
     longitude |-> parseFloat(parts[4]),
     iata      |-> IF trim(parts[5]) = <<>> THEN <<>> ELSE <<trim(parts[5])>>,
     fir       |-> trim(parts[6]),
     isPseudo  |-> trim(parts[7]) = <<"1">>]

\* Variant: no `!airports.has(icao)`, so a later line replaces an earlier one
AdmitsLastOccurrence(entries, airport) ==
    /\ ~airport.isPseudo
    /\ airport.icao # <<>>
    /\ airport.name # <<>>

\* Variant: no `!isPseudo`
AdmitsPseudo(entries, airport) ==
    /\ ~has(entries, airport.icao)
    /\ airport.icao # <<>>
    /\ airport.name # <<>>

\* Only real airports, and the first occurrence of a code
Admits(entries, airport) ==
    /\ ~airport.isPseudo
    /\ ~has(entries, airport.icao)
    /\ airport.icao # <<>>
    /\ airport.name # <<>>

\* The object literal passed to airports.set: `isPseudo: false`
StoredAirport(airport) == [airport EXCEPT !.isPseudo = FALSE]

\* Variant: `parts.length >= 2`, absent fields read as empty
AdmitPartsFromTwoFields(entries, parts) ==
    LET padded == parts \o [k \in 1..(MinFields - Len(parts)) |-> <<>>]
    IN  IF Len(parts) >= 2 /\ Admits(entries, AirportOfParts(padded))
        THEN set(entries, StoredAirport(AirportOfParts(padded)))
        ELSE entries

\* The body of `if (parts.length >= 7)`
AdmitParts(entries, parts) ==
    IF HasAirportFields(parts) /\ Admits(entries, AirportOfParts(parts))
    THEN set(entries, StoredAirport(AirportOfParts(parts)))
    ELSE entries

\* One iteration of `for (const line of lines)`
ProcessLine(st, line) ==
    LET trimmedLine == trim(line)
    IN  IF IsSkippedLine(trimmedLine) THEN st
        ELSE IF IsSectionHeader(trimmedLine)
        THEN [st EXCEPT !.inAirportsSection =
                            SectionAfterHeader(st.inAirportsSection, trimmedLine)]
        ELSE IF ~st.inAirportsSection THEN st
        ELSE [st EXCEPT !.airports = AdmitParts(st.airports, split(trimmedLine, "|"))]

RECURSIVE ParseLoop(_, _, _)
ParseLoop(lines, i, st) ==
    IF i > Len(lines) THEN st
    ELSE ParseLoop(lines, i + 1, ProcessLine(st, lines[i]))

\* The entries of `airports` after the loop over fileContent.split('\n')
ParseText(text) ==
    ParseLoop(split(text, "\n"), 1,
              [inAirportsSection |-> FALSE, airports |-> <<>>]).airports

-----------------------------------------------------------------------------
(* getAirportByIcao and searchAirportsByName on a loaded Map *)

\* Variant: the argument is used as given
LookupKeyAsGiven(icao) == icao

LookupKey(icao) == toUpperCase(icao)

LookupIn(entries, icao) == get(entries, LookupKey(icao))

NameMatches(airport, searchTerm) ==
    includes(toLowerCase(airport.name), toLowerCase(searchTerm))

\* Variant: `results.length > limit`
LimitExceeded(results, limit) == Len(results) > limit

\* `if (results.length >= limit) break`
LimitReached(results, limit) == Len(results) >= limit

RECURSIVE SearchLoop(_, _, _, _, _)
SearchLoop(airportArray, i, searchTerm, limit, results) ==
    IF i > Len(airportArray) THEN results
    ELSE IF NameMatches(airportArray[i], searchTerm)
    THEN LET pushed == Append(results, airportArray[i])
         IN  IF LimitReached(pushed, limit) THEN pushed
             ELSE SearchLoop(airportArray, i + 1, searchTerm, limit, pushed)
    ELSE SearchLoop(airportArray, i + 1, searchTerm, limit, results)

SearchIn(entries, searchTerm, limit) ==
    SearchLoop(entries, 1, searchTerm, limit, <<>>)

-----------------------------------------------------------------------------
(* Dataset texts *)

RECURSIVE JoinWith(_, _)
JoinWith(strings, sep) ==
    IF strings = <<>> THEN <<>>
    ELSE IF Len(strings) = 1 THEN strings[1]
    ELSE strings[1] \o <<sep>> \o JoinWith(Tail(strings), sep)

Row(fields) == JoinWith(fields, "|")

OtherHeader == <<"[", "F", "I", "R", "s", "]">>

RowKJ      == Row(<< <<"K","J">>, <<"A","b">>, <<"4">>, <<"-","7">>, <<"J">>, <<"Z">>, <<"0">> >>)
RowKJAgain == Row(<< <<"K","J">>, <<"B","a">>, <<"5">>, <<"6">>, <<"K">>, <<"Y">>, <<"0">> >>)
RowPseudo  == Row(<< <<"K","J">>, <<"K","a">>, <<"8">>, <<"9">>, <<"K">>, <<"Z">>, <<"1">> >>)
RowLower   == Row(<< <<"k","j">>, <<"a","b">>, <<"1">>, <<"2">>, <<"J">>, <<"Z">>, <<"0">> >>)
RowBadLat  == Row(<< <<"K","J">>, <<"B","b">>, <<"x">>, <<"3">>, <<"J">>, <<"Z">>, <<"0">> >>)
RowShort   == Row(<< <<"K","J">>, <<"A","a">>, <<"4">>, <<"5">>, <<"J">>, <<"Z">> >>)
RowPadded  == Row(<< <<" ","K","B"," ">>, <<" ","a","B"," ">>, <<"4">>, <<"5">>, <<" ">>,
                     <<"Z">>, <<" ","0"," ","\r">> >>)
RowNoName  == Row(<< <<"K","A">>, <<>>, <<"1">>, <<"2">>, <<"A">>, <<"Z">>, <<"0">> >>)

DatasetLines ==
    {AirportsHeader, OtherHeader, RowKJ, RowKJAgain, RowPseudo, RowLower, RowBadLat,
     RowShort, RowPadded, RowNoName}

LineSeqs(n) == UNION {[1..k -> DatasetLines] : k \in 0..n}

TextOf(lines) == JoinWith(lines, "\n")

\* What `await response.text()` resolves with
FileContent == TextOf(datasetLines)

\* The datasets served while callers race for the first load
BackingDatasets ==
    {<<AirportsHeader, RowKJ, RowPadded>>,
     <<AirportsHeader, RowLower>>,
     <<>>}

IcaoArgs == {<<"K","J">>, <<"k","j">>}

SearchTerms == {<<"B">>, <<"A","b">>}

Limits == 0..MaxLimit

Requests ==
    {[fn |-> "parseVatspyData", icao |-> <<>>, searchTerm |-> <<>>, limit |-> 0]}
    \cup {[fn |-> "getAirportByIcao", icao |-> c, searchTerm |-> <<>>, limit |-> 0] :
             c \in IcaoArgs}
    \cup {[fn |-> "searchAirportsByName", icao |-> <<>>, searchTerm |-> t, limit |-> l] :
             t \in SearchTerms, l \in Limits}

NoRequest == [fn |-> "none", icao |-> <<>>, searchTerm |-> <<>>, limit |-> 0]

NoReturn == [request |-> NoRequest, map |-> <<>>, airport |-> <<>>, results |-> <<>>]

NoMap == [id |-> 0, entries |-> <<>>]

-----------------------------------------------------------------------------
(* getFlightCategory *)

\* Visibility is held in 1/VisUnit statute miles, so that values below one
\* mile other than 0 exist; a height is in feet.
VisUnit == 2

MaxVisibility == 6     \* largest visibility drawn, in statute miles
MaxLayers == 2         \* cloud layers of a decoded METAR

DefaultVisibility == 10

DefaultCeiling == 10000

\* JavaScript `x || d` on an optional number: undefined and 0 are falsy
OrDefault(x, d) == IF x = <<>> \/ x[1] = 0 THEN d ELSE x[1]

\* `x ?? d`: only a missing value takes the default
OrDefaultIfMissing(x, d) == IF x = <<>> THEN d ELSE x[1]

IsCeilingLayer(c) == c.quantity = "BKN" \/ c.quantity = "OVC"

\* Array.prototype.find: the first layer that is BKN or OVC, <<>> if none
FindCeilingLayer(clouds) ==
    IF \E i \in 1..Len(clouds) : IsCeilingLayer(clouds[i])
    THEN <<clouds[CHOOSE i \in 1..Len(clouds) :
                     /\ IsCeilingLayer(clouds[i])
                     /\ \A j \in 1..(i - 1) : ~IsCeilingLayer(clouds[j])]>>
    ELSE <<>>

\* `decoded.visibility?.value || 10`
VisibilityUsed(d) == OrDefault(d.visibility, DefaultVisibility * VisUnit)

\* `decoded.clouds?.find(...)?.height || 10000`
CeilingUsed(d) ==
    LET layer == FindCeilingLayer(d.clouds)
    IN  OrDefault(IF layer = <<>> THEN <<>> ELSE <<layer[1].height>>, DefaultCeiling)

\* The four rules, first match wins
CategoryOf(visibility, ceiling) ==
    IF visibility < 1 * VisUnit \/ ceiling < 500 THEN "LIFR"
    ELSE IF visibility < 3 * VisUnit \/ ceiling < 1000 THEN "IFR"
    ELSE IF visibility < 5 * VisUnit \/ ceiling < 3000 THEN "MVFR"
    ELSE "VFR"

getFlightCategory(d) == CategoryOf(VisibilityUsed(d), CeilingUsed(d))

Quantities == {"FEW", "SCT", "BKN", "OVC"}

Heights == {0, 400, 500, 1000, 3000}

CloudLayers == [quantity : Quantities, height : Heights]

Visibilities == {<<>>} \cup {<<v>> : v \in 0..(MaxVisibility * VisUnit)}

DecodedMetars ==
    [visibility : Visibilities,
     clouds     : UNION {[1..n -> CloudLayers] : n \in 0..MaxLayers}]

NoMetar == [visibility |-> <<>>, clouds |-> <<>>]

WeatherIdle == decoded = NoMetar /\ flightCategory = <<>>

-----------------------------------------------------------------------------
(* calculateETA *)

MaxDistance == 240     \* largest distance, in nautical miles

\* What calculateDistance returns: the haversine distance, taken as any whole
\* number of nautical miles
Distances == 0..MaxDistance

\* 120 kt is the lowest whole groundspeed at which a whole distance leaves a
\* remainder of 59.5 minutes
Groundspeeds == {0 - 1, 0, 1, 2, 120}

\* JavaScript truthiness of a number: NaN and 0 are falsy
Truthy(number) == ~number.isNaN /\ number.value # 0

\* Math.floor and Math.round of the quotient a / b, for a >= 0 and b > 0
FloorDiv(a, b) == a \div b

RoundDiv(a, b) == (2 * a + b) \div (2 * b)

\* `!pilot.flight_plan?.arrival || pilot.groundspeed <= 0`
NoArrivalOrNotMoving(p) ==
    \/ p.flight_plan = <<>>
    \/ p.flight_plan[1].arrival = <<>>
    \/ p.groundspeed <= 0

\* Variant: only a missing airport ends the calculation
NoAirport(arrivalAirport) == arrivalAirport = <<>>

\* `!arrivalAirport || !arrivalAirport.latitude || !arrivalAirport.longitude`
NoCoordinates(arrivalAirport) ==
    \/ arrivalAirport = <<>>
    \/ ~Truthy(arrivalAirport[1].latitude)
    \/ ~Truthy(arrivalAirport[1].longitude)

\* hours, minutes and the duration string `${hours}h ${minutes}m` or `${minutes}m`
DurationOf(distance, groundspeed) ==
    LET hours   == FloorDiv(distance, groundspeed)
        minutes == RoundDiv(60 * (distance - hours * groundspeed), groundspeed)
    IN  [hours |-> IF hours > 0 THEN <<hours>> ELSE <<>>, minutes |-> minutes]

\* calculateETA with the Map parseVatspyData gave and the distance
\* calculateDistance returns; <<>> is null. Math.round leaves a whole distance
\* as it is; etaUTC and etaLocal, which read the clock, are left out.
calculateETA(p, entries, distance) ==
    IF NoArrivalOrNotMoving(p) THEN <<>>
    ELSE IF NoCoordinates(LookupIn(entries, p.flight_plan[1].arrival)) THEN <<>>
    ELSE <<[duration |-> DurationOf(distance, p.groundspeed), distance |-> distance]>>

Arrivals == {<<>>, <<"K","J">>, <<"k","j">>, <<"K","B">>}

FlightPlans == {<<>>} \cup {<<[arrival |-> a]>> : a \in Arrivals}

Pilots == [flight_plan : FlightPlans, groundspeed : Groundspeeds]

NoPilot == [flight_plan |-> <<>>, groundspeed |-> 0]

EtaIdle == pilot = NoPilot /\ etaData = <<>> /\ etaResolved = FALSE

-----------------------------------------------------------------------------
(* isPointInPolygon and isPointInMultiPolygon *)

\* The edge from ring[j] to ring[i] crosses the ray from the point: the
\* comparison `lng < (xj - xi) * (lat - yi) / (yj - yi) + xi` multiplied out by
\* yj - yi, which the first conjunct makes non-zero
RayCrosses(point, pi, pj) ==
    LET lng == point[1]
        lat == point[2]
        xi  == pi[1]
        yi  == pi[2]
        xj  == pj[1]
        yj  == pj[2]
    IN  /\ (yi > lat) # (yj > lat)
        /\ IF yj > yi
           THEN (lng - xi) * (yj - yi) < (xj - xi) * (lat - yi)
           ELSE (lng - xi) * (yj - yi) > (xj - xi) * (lat - yi)

\* `inside` after the loop `for (i = 0, j = ring.length - 1; ...; j = i++)`
RingInside(point, ring) ==
    LET crossings == {i \in 1..Len(ring) :
                         RayCrosses(point, ring[i],
                                    ring[IF i = 1 THEN Len(ring) ELSE i - 1])}
    IN  Cardinality(crossings) % 2 = 1

\* Variant: only the exterior ring is examined
RingRejectsExteriorOnly(ringIndex, inside) == ringIndex = 0 /\ ~inside

\* The two `return false` conditions at the end of a ring's iteration
RingRejects(ringIndex, inside) ==
    \/ ringIndex = 0 /\ ~inside
    \/ ringIndex > 0 /\ inside

RECURSIVE PolygonLoop(_, _, _)
PolygonLoop(point, polygon, ringIndex) ==
    IF ringIndex >= Len(polygon) THEN TRUE
    ELSE IF RingRejects(ringIndex, RingInside(point, polygon[ringIndex + 1])) THEN FALSE
    ELSE PolygonLoop(point, polygon, ringIndex + 1)

isPointInPolygon(point, polygon) == PolygonLoop(point, polygon, 0)

\* Variant: Array.prototype.every
InEveryPolygon(point, multiPolygon) ==
    \A k \in 1..Len(multiPolygon) : isPointInPolygon(point, multiPolygon[k])

\* Array.prototype.some
isPointInMultiPolygon(point, multiPolygon) ==
    \E k \in 1..Len(multiPolygon) : isPointInPolygon(point, multiPolygon[k])

-----------------------------------------------------------------------------
(* parseFIRNames: the Map<string, string> as entries in insertion order *)

FIRsHeader == OtherHeader

firNamesHas(firNames, firId) == \E i \in 1..Len(firNames) : firNames[i].id = firId

firNamesGet(firNames, firId) ==
    IF firNamesHas(firNames, firId)
    THEN <<firNames[CHOOSE i \in 1..Len(firNames) : firNames[i].id = firId].name>>
    ELSE <<>>

ProcessFIRLine(st, line) ==
    LET trimmedLine == trim(line)
        parts       == split(trimmedLine, "|")
    IN  IF trimmedLine = FIRsHeader THEN [st EXCEPT !.inFIRSection = TRUE]
        ELSE IF startsWith(trimmedLine, <<"[">>) THEN [st EXCEPT !.inFIRSection = FALSE]
        ELSE IF /\ st.inFIRSection
                /\ trimmedLine # <<>>
                /\ ~startsWith(trimmedLine, <<";">>)
                /\ Len(parts) >= 2
                /\ ~firNamesHas(st.firNames, parts[1])
        THEN [st EXCEPT !.firNames = Append(@, [id |-> parts[1], name |-> parts[2]])]
        ELSE st

RECURSIVE FIRLoop(_, _, _)
FIRLoop(lines, i, st) ==
    IF i > Len(lines) THEN st
    ELSE FIRLoop(lines, i + 1, ProcessFIRLine(st, lines[i]))

\* What parseFIRNames resolves with when the fetch and the read succeed
parseFIRNames(text) ==
    FIRLoop(split(text, "\n"), 1, [inFIRSection |-> FALSE, firNames |-> <<>>]).firNames

\* What the catch block of parseFIRNames returns: `new Map()`
NoFirNames == <<>>

-----------------------------------------------------------------------------
(* detectCurrentFIR: the loop over data.features and the choice of the result *)

UnknownFIR == <<"U", "n", "k", "n", "o", "w", "n", " ", "F", "I", "R">>

\* `isMatch` of one iteration
FeatureIsMatch(point, feature) ==
    IF feature.geometry.type = "MultiPolygon"
    THEN isPointInMultiPolygon(point, feature.geometry.coordinates)
    ELSE IF feature.geometry.type = "Polygon"
    THEN isPointInPolygon(point, feature.geometry.coordinates)
    ELSE FALSE

\* The object pushed to matchingFIRs
FirOf(feature, firNamesMap) ==
    LET firId   == IF feature.properties.id = <<>> THEN UnknownFIR
                   ELSE feature.properties.id
        named   == firNamesGet(firNamesMap, firId)
        firName == IF named = <<>> \/ named[1] = <<>> THEN firId ELSE named[1]
    IN  [id |-> firId, name |-> firName, isOceanic |-> feature.properties.oceanic = <<"1">>]

RECURSIVE MatchLoop(_, _, _, _, _)
MatchLoop(features, i, point, firNamesMap, matchingFIRs) ==
    IF i > Len(features) THEN matchingFIRs
    ELSE MatchLoop(features, i + 1, point, firNamesMap,
                   IF FeatureIsMatch(point, features[i])
                   THEN Append(matchingFIRs, FirOf(features[i], firNamesMap))
                   ELSE matchingFIRs)

IsLandBased(fir) == ~fir.isOceanic

\* Variant: the first match is returned whatever its kind
ChooseFirstMatch(matchingFIRs) ==
    IF Len(matchingFIRs) = 0 THEN <<>> ELSE <<matchingFIRs[1]>>

\* Variant: with no match a placeholder region is returned
ChooseFIROrUnknown(matchingFIRs) ==
    IF Len(matchingFIRs) = 0
    THEN <<[id |-> UnknownFIR, name |-> UnknownFIR, isOceanic |-> FALSE]>>
    ELSE IF Len(SelectSeq(matchingFIRs, IsLandBased)) > 0
    THEN <<SelectSeq(matchingFIRs, IsLandBased)[1]>>
    ELSE <<matchingFIRs[1]>>

\* From `if (matchingFIRs.length === 0)` to `return matchingFIRs[0]`; <<>> is null
ChooseFIR(matchingFIRs) ==
    IF Len(matchingFIRs) = 0 THEN <<>>
    ELSE IF Len(SelectSeq(matchingFIRs, IsLandBased)) > 0
    THEN <<SelectSeq(matchingFIRs, IsLandBased)[1]>>
    ELSE <<matchingFIRs[1]>>

\* Variant: the catch block leaves the result of the call before
StaleFIR == currentFIR

\* What the catch block of detectCurrentFIR returns: null
FailedDetection == <<>>

-----------------------------------------------------------------------------
(* Boundary sets, FIR rows and pilot positions *)

MaxFeatures == 2       \* features of a boundary set
MaxDetects == 2        \* detectCurrentFIR calls of one run

\* A closed ring around the square [lo, hi] x [lo, hi]
Square(lo, hi) ==
    << <<lo, lo>>, <<hi, lo>>, <<hi, hi>>, <<lo, hi>>, <<lo, lo>> >>

\* The same square with the closing position left out
OpenSquare(lo, hi) == << <<lo, lo>>, <<hi, lo>>, <<hi, hi>>, <<lo, hi>> >>

Feature(type, coordinates, id, oceanic) ==
    [geometry   |-> [type |-> type, coordinates |-> coordinates],
     properties |-> [id |-> id, oceanic |-> oceanic]]

\* A land FIR with a hole, an oceanic FIR around it, a land FIR of two parts
\* the second of which fills the hole of the first, a polygon without rings, a
\* land FIR without id or oceanic flag, and a geometry of another type
FeatureCatalogue ==
    << Feature("Polygon", <<Square(0, 6), Square(2, 4)>>, <<"K","Z">>, <<"0">>),
       Feature("Polygon", <<OpenSquare(0 - 2, 8)>>, <<"O","C">>, <<"1">>),
       Feature("MultiPolygon", << <<Square(0, 6), OpenSquare(2, 4)>>, <<Square(2, 4)>> >>,
               <<"M","P">>, <<"0">>),
       Feature("Polygon", <<>>, <<"E","P">>, <<"1">>),
       Feature("Polygon", <<Square(4, 8)>>, <<>>, <<>>),
       Feature("Point", <<>>, <<"P","T">>, <<"0">>) >>

\* [longitude, latitude] of the pilot: in the hole of the first land FIR, in
\* its exterior, in the land FIR without id, over the ocean only, outside
\* everything
PilotPoints == {<<3, 3>>, <<1, 5>>, <<7, 7>>, <<0 - 1, 5>>, <<9, 9>>}

FirRowKZ      == Row(<< <<"K","Z">>, <<"N","y">> >>)
FirRowKZAgain == Row(<< <<"K","Z">>, <<"N","j">> >>)

FirDatasets ==
    {<<FIRsHeader, FirRowKZ, FirRowKZAgain>>,
     <<FIRsHeader, AirportsHeader, FirRowKZ>>}

NoFirCall ==
    [pc                 |-> "idle",
     pilotPoint         |-> <<0, 0>>,
     boundariesResponse |-> "none",
     firNames           |-> "none",
     firNamesFailed     |-> FALSE,
     firNamesMap        |-> <<>>,
     data               |-> "none",
     isMatch            |-> <<>>,
     matchingFIRs       |-> <<>>]

FirIdle ==
    /\ boundaries = <<>>
    /\ firCall = NoFirCall
    /\ currentFIR = <<>>
    /\ boundariesFetchCount = 0
    /\ firNamesFetchCount = 0

StoreIdle ==
    /\ cachedAirports = <<>>
    /\ pc = [p \in Callers |-> "idle"]
    /\ request = [p \in Callers |-> NoRequest]
    /\ airports = [p \in Callers |-> NoMap]
    /\ returned = [p \in Callers |-> NoReturn]
    /\ fetchCount = 0
    /\ parseCount = 0
    /\ nextMapId = 1

MapIdle ==
    /\ bearing = 0
    /\ rotation = <<>>

RefreshIdle ==
    /\ displayedPilot = <<>>
    /\ autoRefresh = FALSE
    /\ error = ""
    /\ loading = FALSE
    /\ refreshIntervalRef = <<>>
    /\ effectDue = FALSE
    /\ inFlight = {}
    /\ requestCount = 0
    /\ shownRequest = 0
    /\ feed = <<>>

PageIdle == WeatherIdle /\ EtaIdle /\ FirIdle /\ MapIdle /\ RefreshIdle

-----------------------------------------------------------------------------
(* The exported functions as steps of their callers *)

\* What the exported function `req.fn` resolves with once parseVatspyData gave `map`
ResultOf(req, map) ==
    [request |-> req,
     map     |-> <<map>>,
     airport |-> IF req.fn = "getAirportByIcao"
                 THEN LookupIn(map.entries, req.icao) ELSE <<>>,
     results |-> IF req.fn = "searchAirportsByName"
                 THEN SearchIn(map.entries, req.searchTerm, req.limit) ELSE <<>>]

Init ==
    /\ datasetLines \in BackingDatasets
    /\ cachedAirports = <<>>
    /\ pc = [p \in Callers |-> "idle"]
    /\ request = [p \in Callers |-> NoRequest]
    /\ airports = [p \in Callers |-> NoMap]
    /\ returned = [p \in Callers |-> NoReturn]
    /\ fetchCount = 0
    /\ parseCount = 0
    /\ nextMapId = 1
    /\ PageIdle

\* `if (cachedAirports) return cachedAirports`
CallCached(p, req) ==
    /\ pc[p] = "idle"
    /\ cachedAirports # <<>>
    /\ returned' = [returned EXCEPT ![p] = ResultOf(req, cachedAirports[1])]
    /\ UNCHANGED <<pageVars, datasetLines, cachedAirports, pc, request, airports,
                   fetchCount, parseCount, nextMapId>>

\* `new Map()` and the fetch, up to the first await
CallLoad(p, req) ==
    /\ pc[p] = "idle"
    /\ cachedAirports = <<>>
    /\ request' = [request EXCEPT ![p] = req]
    /\ airports' = [airports EXCEPT ![p] = [id |-> nextMapId, entries |-> <<>>]]
    /\ nextMapId' = nextMapId + 1
    /\ fetchCount' = fetchCount + 1
    /\ pc' = [pc EXCEPT ![p] = "fetch"]
    /\ UNCHANGED <<pageVars, datasetLines, cachedAirports, returned, parseCount>>

\* `cachedAirports = airports; return airports`
Publish(p, map) ==
    /\ cachedAirports' = <<map>>
    /\ returned' = [returned EXCEPT ![p] = ResultOf(request[p], map)]
    /\ request' = [request EXCEPT ![p] = NoRequest]
    /\ airports' = [airports EXCEPT ![p] = NoMap]
    /\ pc' = [pc EXCEPT ![p] = "idle"]

\* The fetch resolves; response.text() is awaited
FetchResolve(p) ==
    /\ pc[p] = "fetch"
    /\ pc' = [pc EXCEPT ![p] = "text"]
    /\ UNCHANGED <<pageVars, datasetLines, cachedAirports, request, airports, returned,
                   fetchCount, parseCount, nextMapId>>

\* The fetch rejects: the catch block, then the empty Map is cached
FetchReject(p) ==
    /\ pc[p] = "fetch"
    /\ Publish(p, airports[p])
    /\ UNCHANGED <<pageVars, datasetLines, fetchCount, parseCount, nextMapId>>

\* response.text() resolves: the line loop runs to its end without an await
TextResolve(p) ==
    /\ pc[p] = "text"
    /\ Publish(p, [airports[p] EXCEPT !.entries = ParseText(FileContent)])
    /\ parseCount' = parseCount + 1
    /\ UNCHANGED <<pageVars, datasetLines, fetchCount, nextMapId>>

\* response.text() rejects
TextReject(p) ==
    /\ pc[p] = "text"
    /\ Publish(p, airports[p])
    /\ UNCHANGED <<pageVars, datasetLines, fetchCount, parseCount, nextMapId>>

Next ==
    \E p \in Callers :
        \/ \E req \in Requests : CallCached(p, req)
        \/ \E req \in Requests : CallLoad(p, req)
        \/ FetchResolve(p)
        \/ FetchReject(p)
        \/ TextResolve(p)
        \/ TextReject(p)

Spec == Init /\ [][Next]_vars

\* One caller, a dataset of at most MaxLines lines, and a load that succeeds
InitParser ==
    /\ datasetLines \in LineSeqs(MaxLines)
    /\ cachedAirports = <<>>
    /\ pc = [p \in Callers |-> "idle"]
    /\ request = [p \in Callers |-> NoRequest]
    /\ airports = [p \in Callers |-> NoMap]
    /\ returned = [p \in Callers |-> NoReturn]
    /\ fetchCount = 0
    /\ parseCount = 0
    /\ nextMapId = 1
    /\ PageIdle

NextParser ==
    \/ \E req \in Requests : CallCached("c1", req)
    \/ \E req \in Requests : CallLoad("c1", req)
    \/ FetchResolve("c1")
    \/ TextResolve("c1")

SpecParser == InitParser /\ [][NextParser]_vars

-----------------------------------------------------------------------------
(* getFlightCategory as the page applies it to the decoded METAR of a lookup *)

DecodeWeather(d) ==
    /\ flightCategory = <<>>
    /\ decoded' = d
    /\ flightCategory' = <<getFlightCategory(d)>>
    /\ UNCHANGED <<storeVars, mapVars, refreshVars, etaVars, firVars>>

InitWeather ==
    /\ datasetLines = <<>>
    /\ StoreIdle
    /\ PageIdle

NextWeather == \E d \in DecodedMetars : DecodeWeather(d)

SpecWeather == InitWeather /\ [][NextWeather]_vars

-----------------------------------------------------------------------------
(* calculateETA once the airport Map is cached *)

RowZeroLat == Row(<< <<"K","J">>, <<"A","b">>, <<"0">>, <<"5">>, <<"J">>, <<"Z">>, <<"0">> >>)

EtaDatasets ==
    {<<AirportsHeader, RowKJ>>,
     <<AirportsHeader, RowBadLat>>,
     <<AirportsHeader, RowZeroLat>>,
     <<>>}

\* The whole call for the pilot found: getAirportByIcao answers from the
\* cached Map
CalculateETA(p, distance) ==
    /\ cachedAirports # <<>>
    /\ ~etaResolved
    /\ pilot' = p
    /\ etaData' = calculateETA(p, cachedAirports[1].entries, distance)
    /\ etaResolved' = TRUE
    /\ UNCHANGED <<storeVars, mapVars, refreshVars, weatherVars, firVars>>

\* The state after one load of the dataset
InitETA ==
    /\ datasetLines \in EtaDatasets
    /\ cachedAirports = <<[id |-> 1, entries |-> ParseText(FileContent)]>>
    /\ pc = [p \in Callers |-> "idle"]
    /\ request = [p \in Callers |-> NoRequest]
    /\ airports = [p \in Callers |-> NoMap]
    /\ returned = [p \in Callers |-> NoReturn]
    /\ fetchCount = 1
    /\ parseCount = 1
    /\ nextMapId = 2
    /\ PageIdle

NextETA == \E p \in Pilots, distance \in Distances : CalculateETA(p, distance)

SpecETA == InitETA /\ [][NextETA]_vars

-----------------------------------------------------------------------------
(* detectCurrentFIR as the steps of its promises *)

\* Up to the first await: both requests of Promise.all are started
DetectStart(point) ==
    /\ firCall.pc \in {"idle", "done"}
    /\ boundariesFetchCount < MaxDetects
    /\ firCall' = [NoFirCall EXCEPT !.pc = "all",
                                    !.pilotPoint = point,
                                    !.boundariesResponse = "pending",
                                    !.firNames = "pending"]
    /\ boundariesFetchCount' = boundariesFetchCount + 1
    /\ firNamesFetchCount' = firNamesFetchCount + 1
    /\ UNCHANGED <<storeVars, mapVars, refreshVars, weatherVars, etaVars, boundaries, currentFIR>>

BoundariesResolve ==
    /\ firCall.pc = "all"
    /\ firCall.boundariesResponse = "pending"
    /\ firCall' = [firCall EXCEPT !.boundariesResponse = "resolved"]
    /\ UNCHANGED <<storeVars, mapVars, refreshVars, weatherVars, etaVars, boundaries, currentFIR,
                   boundariesFetchCount, firNamesFetchCount>>

\* Promise.all rejects at once and the catch block runs
BoundariesReject ==
    /\ firCall.pc = "all"
    /\ firCall.boundariesResponse = "pending"
    /\ firCall' = [firCall EXCEPT !.boundariesResponse = "rejected", !.pc = "done"]
    /\ currentFIR' = FailedDetection
    /\ UNCHANGED <<storeVars, mapVars, refreshVars, weatherVars, etaVars, boundaries,
                   boundariesFetchCount, firNamesFetchCount>>

\* parseFIRNames fetched and read VATSpy.dat
FirNamesResolve ==
    /\ firCall.pc = "all"
    /\ firCall.firNames = "pending"
    /\ firCall' = [firCall EXCEPT !.firNames = "fulfilled",
                                  !.firNamesMap = parseFIRNames(FileContent)]
    /\ UNCHANGED <<storeVars, mapVars, refreshVars, weatherVars, etaVars, boundaries, currentFIR,
                   boundariesFetchCount, firNamesFetchCount>>

\* The fetch or the read inside parseFIRNames failed: its own catch block
FirNamesFail ==
    /\ firCall.pc = "all"
    /\ firCall.firNames = "pending"
    /\ firCall' = [firCall EXCEPT !.firNames = "fulfilled",
                                  !.firNamesFailed = TRUE,
                                  !.firNamesMap = NoFirNames]
    /\ UNCHANGED <<storeVars, mapVars, refreshVars, weatherVars, etaVars, boundaries, currentFIR,
                   boundariesFetchCount, firNamesFetchCount>>

AllSettled ==
    /\ firCall.pc = "all"
    /\ firCall.boundariesResponse = "resolved"
    /\ firCall.firNames = "fulfilled"

\* boundariesResponse.json() resolves: the loop and the choice run to the end
JsonResolve ==
    /\ AllSettled
    /\ LET matching == MatchLoop(boundaries, 1, firCall.pilotPoint,
                                 firCall.firNamesMap, <<>>)
       IN  /\ firCall' = [firCall EXCEPT
                             !.pc = "done",
                             !.data = "decoded",
                             !.isMatch = [i \in 1..Len(boundaries) |->
                                             FeatureIsMatch(firCall.pilotPoint,
                                                            boundaries[i])],
                             !.matchingFIRs = matching]
           /\ currentFIR' = ChooseFIR(matching)
    /\ UNCHANGED <<storeVars, mapVars, refreshVars, weatherVars, etaVars, boundaries,
                   boundariesFetchCount, firNamesFetchCount>>

\* boundariesResponse.json() rejects
JsonReject ==
    /\ AllSettled
    /\ firCall' = [firCall EXCEPT !.pc = "done", !.data = "failed"]
    /\ currentFIR' = FailedDetection
    /\ UNCHANGED <<storeVars, mapVars, refreshVars, weatherVars, etaVars, boundaries,
                   boundariesFetchCount, firNamesFetchCount>>

BoundarySets(n) ==
    UNION {[1..k -> 1..Len(FeatureCatalogue)] : k \in 0..n}

\* Every request is answered
InitFIR ==
    /\ datasetLines \in FirDatasets
    /\ StoreIdle
    /\ WeatherIdle
    /\ EtaIdle
    /\ MapIdle
    /\ RefreshIdle
    /\ \E choice \in BoundarySets(MaxFeatures) :
           boundaries = [i \in DOMAIN choice |-> FeatureCatalogue[choice[i]]]
    /\ firCall = NoFirCall
    /\ currentFIR = <<>>
    /\ boundariesFetchCount = 0
    /\ firNamesFetchCount = 0

NextFIR ==
    \/ \E point \in PilotPoints : DetectStart(point)
    \/ BoundariesResolve
    \/ FirNamesResolve
    \/ JsonResolve

SpecFIR == InitFIR /\ [][NextFIR]_vars

-----------------------------------------------------------------------------
(* Loads that fail: the airport dataset, the boundary set, the FIR names *)

LoadRequest == [fn |-> "parseVatspyData", icao |-> <<>>, searchTerm |-> <<>>, limit |-> 0]

FailureBoundaries == <<FeatureCatalogue[2], FeatureCatalogue[1]>>

InitFailure ==
    /\ datasetLines = <<FIRsHeader, FirRowKZ, AirportsHeader, RowKJ>>
    /\ StoreIdle
    /\ WeatherIdle
    /\ EtaIdle
    /\ MapIdle
    /\ RefreshIdle
    /\ boundaries = FailureBoundaries
    /\ firCall = NoFirCall
    /\ currentFIR = <<>>
    /\ boundariesFetchCount = 0
    /\ firNamesFetchCount = 0

NextFailure ==
    \/ CallCached("c1", LoadRequest)
    \/ CallLoad("c1", LoadRequest)
    \/ FetchResolve("c1")
    \/ FetchReject("c1")
    \/ TextResolve("c1")
    \/ TextReject("c1")
    \/ \E point \in PilotPoints : DetectStart(point)
    \/ BoundariesResolve
    \/ BoundariesReject
    \/ FirNamesResolve
    \/ FirNamesFail
    \/ JsonResolve
    \/ JsonReject

SpecFailure == InitFailure /\ [][NextFailure]_vars

-----------------------------------------------------------------------------
(* calculateBearing of the map: angles are counted in steps, FineSteps of    *)
(* them to the smallest difference a number near 360 can show, and AngleUnit *)
(* of those to the degree                                                    *)

AngleUnit == 1     \* values a number near 360 can take, per degree
FineSteps == 4     \* values a number near 0 can take between two of those

Degrees(n) == n * AngleUnit * FineSteps

\* The `%` of JavaScript: the remainder has the sign of the dividend
Remainder(a, b) == IF a >= 0 THEN a % b ELSE 0 - ((0 - a) % b)

\* The `+` of two numbers whose sum is of the size of 360: the sum is rounded
\* to the nearest value a number of that size can take
Sum(a, b) == ((2 * (a + b) + FineSteps) \div (2 * FineSteps)) * FineSteps

\* Variant: the remainder is taken of the angle itself
RemainderOnly(angle) == Remainder(angle, Degrees(360))

\* `(bearing + 360) % 360`
Normalize(angle) == Remainder(Sum(angle, Degrees(360)), Degrees(360))

\* Math.atan2(y, x) * 180 / Math.PI over all pairs of points
Atan2Degrees == Degrees(0 - 180)..Degrees(180)

calculateBearing(angle) ==
    /\ rotation = <<>>
    /\ bearing' = angle
    /\ rotation' = <<Normalize(angle)>>
    /\ UNCHANGED <<storeVars, weatherVars, etaVars, firVars, refreshVars>>

InitBearing ==
    /\ datasetLines = <<>>
    /\ StoreIdle
    /\ PageIdle

NextBearing == \E angle \in Atan2Degrees : calculateBearing(angle)

SpecBearing == InitBearing /\ [][NextBearing]_vars

-----------------------------------------------------------------------------
(* Tracking a flight: the search, the auto-refresh effect, its interval and  *)
(* the refreshPilotData calls it starts, each answered at any later moment   *)

MaxRequests == 2       \* refreshPilotData calls of one run

OfflineMessage == "Pilot is no longer online on VATSIM."

NotFoundMessage == "Flight not found. Make sure the callsign is correct and the pilot is currently online on VATSIM."

VatsimPilot(longitude, latitude, altitude) ==
    [longitude |-> longitude, latitude |-> latitude, altitude |-> altitude,
     groundspeed |-> 120, heading |-> 90]

\* The tracked flight: over the ocean, over land at the same level, climbing
Flight == <<VatsimPilot(3, 3, 100), VatsimPilot(1, 5, 100), VatsimPilot(1, 5, 200)>>

TrackedPilots == {Flight[i] : i \in 1..Len(Flight)}

\* How far the flight is in what the feed serves: past the last stage the
\* pilot is offline
Stage(served) ==
    IF served = <<>> THEN Len(Flight) + 1
    ELSE CHOOSE i \in 1..Len(Flight) : Flight[i] = served[1]

\* `data.pilots.find(...)` on what the feed can serve: <<>> is undefined
Served == {<<>>} \cup {<<p>> : p \in TrackedPilots}

\* `changes` of refreshPilotData, against the pilot of the render it closed over
Changes(closed, foundPilot) ==
    [altitude    |-> closed.altitude # foundPilot.altitude,
     groundspeed |-> closed.groundspeed # foundPilot.groundspeed,
     heading     |-> closed.heading # foundPilot.heading]

\* `if (changes.altitude || changes.groundspeed || changes.heading)`
FirIsRecomputed(changes) == changes.altitude \/ changes.groundspeed \/ changes.heading

\* `await detectCurrentFIR(foundPilot)` with both of its requests answered
DetectedFIR(foundPilot) ==
    ChooseFIR(MatchLoop(boundaries, 1, <<foundPilot.longitude, foundPilot.latitude>>,
                        parseFIRNames(FileContent), <<>>))

\* Variant: the interval is set up whenever a pilot is displayed
IntervalWhilePilot(auto, shown) == IF shown # <<>> THEN <<shown[1]>> ELSE <<>>

\* refreshIntervalRef.current after the cleanup and the body of the effect ran
IntervalAfterEffect(auto, shown) == IF auto /\ shown # <<>> THEN <<shown[1]>> ELSE <<>>

refreshFrame == <<storeVars, weatherVars, etaVars, mapVars, boundaries, firCall,
                  boundariesFetchCount, firNamesFetchCount>>

\* The feed is rewritten: the flight went on, the pilot left, or came back
\* where the flight had ended
FeedUpdate(served) ==
    /\ \/ Stage(served) > Stage(feed)
       \/ feed = <<>> /\ Stage(served) = Len(Flight)
    /\ feed' = served
    /\ UNCHANGED <<refreshFrame, currentFIR, displayedPilot, autoRefresh, error, loading,
                   refreshIntervalRef, effectDue, inFlight, requestCount, shownRequest>>

\* searchFlight up to its fetch
SearchStart ==
    /\ ~loading
    /\ loading' = TRUE
    /\ error' = ""
    /\ displayedPilot' = <<>>
    /\ effectDue' = (effectDue \/ displayedPilot # <<>>)
    /\ UNCHANGED <<refreshFrame, currentFIR, autoRefresh, refreshIntervalRef, inFlight,
                   requestCount, shownRequest, feed>>

\* searchFlight from the answer of its fetch to `finally`
SearchResolve ==
    /\ loading
    /\ loading' = FALSE
    /\ IF feed # <<>>
       THEN /\ displayedPilot' = feed
            /\ autoRefresh' = TRUE
            /\ currentFIR' = DetectedFIR(feed[1])
            /\ shownRequest' = 0
            /\ effectDue' = TRUE
            /\ UNCHANGED error
       ELSE /\ error' = NotFoundMessage
            /\ UNCHANGED <<displayedPilot, autoRefresh, currentFIR, shownRequest, effectDue>>
    /\ UNCHANGED <<refreshFrame, refreshIntervalRef, inFlight, requestCount, feed>>

\* The Auto-refresh button, shown while a pilot is displayed
ToggleAutoRefresh ==
    /\ displayedPilot # <<>>
    /\ autoRefresh' = ~autoRefresh
    /\ effectDue' = TRUE
    /\ UNCHANGED <<refreshFrame, currentFIR, displayedPilot, error, loading,
                   refreshIntervalRef, inFlight, requestCount, shownRequest, feed>>

\* The effect on [autoRefresh, pilot]: the cleanup of the run before, then the body
RunEffect ==
    /\ effectDue
    /\ effectDue' = FALSE
    /\ refreshIntervalRef' = IntervalAfterEffect(autoRefresh, displayedPilot)
    /\ UNCHANGED <<refreshFrame, currentFIR, displayedPilot, autoRefresh, error, loading,
                   inFlight, requestCount, shownRequest, feed>>

\* The interval fires: refreshPilotData up to its fetch. The request will be
\* answered with what the feed serves now (ok), or it will fail
Tick(ok) ==
    /\ refreshIntervalRef # <<>>
    /\ requestCount < MaxRequests
    /\ requestCount' = requestCount + 1
    /\ inFlight' = inFlight \cup {[seq   |-> requestCount + 1,
                                   pilot |-> refreshIntervalRef[1],
                                   ok    |-> ok,
                                   data  |-> IF ok THEN feed ELSE <<>>]}
    /\ UNCHANGED <<refreshFrame, currentFIR, displayedPilot, autoRefresh, error, loading,
                   refreshIntervalRef, effectDue, shownRequest, feed>>

\* refreshPilotData from the answer on: the callsign is among data.pilots
RespondFound(r) ==
    /\ r \in inFlight
    /\ r.ok
    /\ r.data # <<>>
    /\ inFlight' = inFlight \ {r}
    /\ displayedPilot' = r.data
    /\ shownRequest' = r.seq
    /\ effectDue' = TRUE
    /\ currentFIR' = IF FirIsRecomputed(Changes(r.pilot, r.data[1]))
                     THEN DetectedFIR(r.data[1])
                     ELSE currentFIR
    /\ UNCHANGED <<refreshFrame, autoRefresh, error, loading, refreshIntervalRef,
                   requestCount, feed>>

\* refreshPilotData from the answer on: the callsign is not among data.pilots
RespondMissing(r) ==
    /\ r \in inFlight
    /\ r.ok
    /\ r.data = <<>>
    /\ inFlight' = inFlight \ {r}
    /\ autoRefresh' = FALSE
    /\ error' = OfflineMessage
    /\ effectDue' = (effectDue \/ autoRefresh)
    /\ UNCHANGED <<refreshFrame, currentFIR, displayedPilot, loading, refreshIntervalRef,
                   requestCount, shownRequest, feed>>

\* The request is aborted or fails, or the answer is not ok or has no pilots
RespondFailed(r) ==
    /\ r \in inFlight
    /\ ~r.ok
    /\ inFlight' = inFlight \ {r}
    /\ UNCHANGED <<refreshFrame, currentFIR, displayedPilot, autoRefresh, error, loading,
                   refreshIntervalRef, effectDue, requestCount, shownRequest, feed>>

InitRefresh ==
    /\ datasetLines = <<FIRsHeader, FirRowKZ, AirportsHeader, RowKJ>>
    /\ StoreIdle
    /\ WeatherIdle
    /\ EtaIdle
    /\ MapIdle
    /\ boundaries = FailureBoundaries
    /\ firCall = NoFirCall
    /\ currentFIR = <<>>
    /\ boundariesFetchCount = 0
    /\ firNamesFetchCount = 0
    /\ displayedPilot = <<>>
    /\ autoRefresh = FALSE
    /\ error = ""
    /\ loading = FALSE
    /\ refreshIntervalRef = <<>>
    /\ effectDue = FALSE
    /\ inFlight = {}
    /\ requestCount = 0
    /\ shownRequest = 0
    /\ feed \in Served

NextRefresh ==
    \/ \E served \in Served : FeedUpdate(served)
    \/ SearchStart
    \/ SearchResolve
    \/ ToggleAutoRefresh
    \/ RunEffect
    \/ \E ok \in BOOLEAN : Tick(ok)
    \/ \E r \in inFlight : RespondFound(r)
    \/ \E r \in inFlight : RespondMissing(r)
    \/ \E r \in inFlight : RespondFailed(r)

SpecRefresh == InitRefresh /\ [][NextRefresh]_vars

-----------------------------------------------------------------------------
(* The dataset text read line by line, as the claims speak of it *)

Lines == datasetLines

TrimmedAt(i) == trim(Lines[i])

HeaderAt(i) ==
    /\ TrimmedAt(i) # <<>>
    /\ TrimmedAt(i)[1] = "["
    /\ TrimmedAt(i)[Len(TrimmedAt(i))] = "]"

\* Neither blank, nor a comment, nor a section header
DataAt(i) ==
    /\ TrimmedAt(i) # <<>>
    /\ TrimmedAt(i)[1] # ";"
    /\ ~HeaderAt(i)

\* The most recent section header before line i is exactly [Airports]
InAirportsAt(i) ==
    \E h \in 1..(i - 1) :
        /\ HeaderAt(h)
        /\ TrimmedAt(h) = AirportsHeader
        /\ \A j \in (h + 1)..(i - 1) : ~HeaderAt(j)

PartsAt(i) == split(TrimmedAt(i), "|")

\* A pipe-delimited airport line of the airports section
AirportLineAt(i) == DataAt(i) /\ InAirportsAt(i) /\ Len(PartsAt(i)) >= 7

CodeAt(i) == trim(PartsAt(i)[1])

PseudoAt(i) == trim(PartsAt(i)[7]) = <<"1">>

\* The record with the fields of line i
RecordAt(i) ==
    [icao      |-> CodeAt(i),
     name      |-> trim(PartsAt(i)[2]),
     latitude  |-> parseFloat(PartsAt(i)[3]),
     longitude |-> parseFloat(PartsAt(i)[4]),
     iata      |-> IF trim(PartsAt(i)[5]) = <<>> THEN <<>> ELSE <<trim(PartsAt(i)[5])>>,
     fir       |-> trim(PartsAt(i)[6]),
     isPseudo  |-> FALSE]

\* Line i carries a code, is not pseudo and has a non-empty name
CandidateAt(i) ==
    /\ AirportLineAt(i)
    /\ ~PseudoAt(i)
    /\ CodeAt(i) # <<>>
    /\ trim(PartsAt(i)[2]) # <<>>

Loaded == cachedAirports # <<>>

Snapshot == cachedAirports[1].entries

\* The last call of c1 was parseVatspyData itself and has resolved
Parsed == returned["c1"].request.fn = "parseVatspyData"

\* Every upper/lower-case spelling of a code
Spellings(code) ==
    {s \in [1..Len(code) -> {"a", "b", "j", "k", "A", "B", "J", "K"}] :
        \A i \in 1..Len(code) : s[i] \in {UpperChar(code[i]), LowerChar(code[i])}}

\* The records a call of c1 resolved with
ReturnedRecords ==
    {returned["c1"].airport[i] : i \in 1..Len(returned["c1"].airport)}
    \cup {returned["c1"].results[i] : i \in 1..Len(returned["c1"].results)}

-----------------------------------------------------------------------------
(* Claims *)

\* C1 - Single-flight load: however many calls start before the first load
\* has completed, the dataset is fetched and parsed exactly once and every
\* caller receives the same Map instance.
SingleFlightLoad ==
    /\ fetchCount <= 1
    /\ parseCount <= 1
    /\ \A p, q \in Callers :
          returned[p].map # <<>> /\ returned[q].map # <<>>
              => returned[p].map[1].id = returned[q].map[1].id

\* C2 - Once one call has completed, every later call returns the identical
\* cached Map and the dataset is not fetched again: the cached Map is never
\* replaced and no fetch is issued once the cache is set.
CachedMapIsKept ==
    [][cachedAirports # <<>> =>
          cachedAirports' = cachedAirports /\ fetchCount' = fetchCount]_vars

\* C3 - First-wins admission: for every code X the record stored for X has the
\* fields of the first line, in file order, of the airports section that
\* carries X, is not pseudo and has a non-empty name; a code with no such line
\* has no record.
FirstWinsAdmission ==
    Parsed =>
        \A X \in {CodeAt(i) : i \in {j \in 1..Len(Lines) : AirportLineAt(j)}}
                 \cup {Snapshot[k].icao : k \in 1..Len(Snapshot)} :
            LET carrying == {i \in 1..Len(Lines) : CandidateAt(i) /\ CodeAt(i) = X}
            IN  IF carrying = {}
                THEN get(Snapshot, X) = <<>>
                ELSE get(Snapshot, X) =
                        <<RecordAt(CHOOSE i \in carrying : \A j \in carrying : i <= j)>>

\* Two candidate lines with one code and different names, the first one stored
FirstWinsWitness ==
    /\ Parsed
    /\ \E i, j \in 1..Len(Lines) :
          /\ i < j
          /\ CandidateAt(i) /\ CandidateAt(j)
          /\ CodeAt(i) = CodeAt(j)
          /\ RecordAt(i).name # RecordAt(j).name
          /\ get(Snapshot, CodeAt(i)) = <<RecordAt(i)>>

\* Record r has the fields of an airport line that is not pseudo
FromRealLine(r) ==
    /\ r.isPseudo = FALSE
    /\ \E i \in 1..Len(Lines) : AirportLineAt(i) /\ ~PseudoAt(i) /\ RecordAt(i) = r

\* C4 - Pseudo exclusion: every record returned by getAirportByIcao or
\* searchAirportsByName, and every stored record, has isPseudo = false and the
\* fields of a line that is not pseudo; a code whose lines are all pseudo has
\* no record, also when it occurs on no other line.
PseudoExclusion ==
    /\ Loaded => \A r \in ReturnedRecords : FromRealLine(r)
    /\ Parsed =>
          /\ \A k \in 1..Len(Snapshot) : FromRealLine(Snapshot[k])
          /\ \A i \in 1..Len(Lines) :
                (/\ AirportLineAt(i)
                 /\ PseudoAt(i)
                 /\ \A j \in 1..Len(Lines) :
                       AirportLineAt(j) /\ CodeAt(j) = CodeAt(i) => PseudoAt(j))
                => get(Snapshot, CodeAt(i)) = <<>>

\* A pseudo line whose code is on no other line, looked up by that code: null
PseudoExclusionWitness ==
    /\ Loaded
    /\ returned["c1"].request.fn = "getAirportByIcao"
    /\ returned["c1"].airport = <<>>
    /\ \E i \in 1..Len(Lines) :
          /\ AirportLineAt(i) /\ PseudoAt(i)
          /\ CodeAt(i) = toUpperCase(returned["c1"].request.icao)
          /\ \A j \in 1..Len(Lines) : j # i /\ DataAt(j) => CodeAt(j) # CodeAt(i)

\* C5 - getAirportByIcao is case-insensitive in its argument: what a call
\* returned is what the lookup gives for every other spelling of its argument.
LookupIgnoresCase ==
    Loaded /\ returned["c1"].request.fn = "getAirportByIcao" =>
        \A s \in Spellings(returned["c1"].request.icao) :
            LookupIn(Snapshot, s) = returned["c1"].airport

\* A lower-case argument that found the record stored under the upper-case code
LookupIgnoresCaseWitness ==
    /\ Loaded
    /\ returned["c1"].request.fn = "getAirportByIcao"
    /\ returned["c1"].request.icao = <<"k", "j">>
    /\ returned["c1"].airport # <<>>
    /\ returned["c1"].airport[1].icao = <<"K", "J">>

\* C6 - The store normalizes codes to upper case before indexing: every
\* stored record is stored under its upper-case code and is found by
\* getAirportByIcao with every spelling of its code.
StoredUnderUpperCase ==
    Loaded =>
        \A k \in 1..Len(Snapshot) :
            /\ Snapshot[k].icao = toUpperCase(Snapshot[k].icao)
            /\ \A s \in Spellings(Snapshot[k].icao) : LookupIn(Snapshot, s) # <<>>

\* A candidate line whose latitude and longitude parse as numbers
NumericCandidateAt(i) ==
    /\ CandidateAt(i)
    /\ ~RecordAt(i).latitude.isNaN
    /\ ~RecordAt(i).longitude.isNaN

\* C7 - A line whose latitude or longitude does not parse as a number is
\* skipped: no stored record has a NaN latitude or longitude, and such a line
\* does not keep a later well-formed line with its code from being admitted.
UnparsableNumberSkipped ==
    Loaded =>
        /\ \A k \in 1..Len(Snapshot) :
              ~Snapshot[k].latitude.isNaN /\ ~Snapshot[k].longitude.isNaN
        /\ \A i \in 1..Len(Lines) :
              NumericCandidateAt(i) =>
                  LET same == {j \in 1..Len(Lines) :
                                  NumericCandidateAt(j) /\ CodeAt(j) = CodeAt(i)}
                  IN  get(Snapshot, CodeAt(i)) =
                          <<RecordAt(CHOOSE j \in same : \A l \in same : j <= l)>>

\* C8 - A line of the airports section with fewer than 7 fields adds no record
\* and does not change how the other lines are processed: the snapshot is the
\* snapshot of the text without that line.
ShortLineIgnored ==
    Parsed =>
        \A i \in 1..Len(Lines) :
            DataAt(i) /\ InAirportsAt(i) /\ Len(PartsAt(i)) < 7 =>
                Snapshot = ParseText(TextOf(SubSeq(Lines, 1, i - 1)
                                            \o SubSeq(Lines, i + 1, Len(Lines))))

\* A short line in the airports section, followed by a line that was admitted
ShortLineIgnoredWitness ==
    /\ Parsed
    /\ \E i, j \in 1..Len(Lines) :
          /\ i < j
          /\ DataAt(i) /\ InAirportsAt(i) /\ Len(PartsAt(i)) < 7
          /\ Len(PartsAt(i)) >= 2
          /\ CandidateAt(j)
          /\ get(Snapshot, CodeAt(j)) = <<RecordAt(j)>>

\* The lines from position i on that are airport lines of the airports section
RECURSIVE AirportLinesFrom(_)
AirportLinesFrom(i) ==
    IF i > Len(Lines) THEN <<>>
    ELSE IF DataAt(i) /\ InAirportsAt(i)
    THEN <<PartsAt(i)>> \o AirportLinesFrom(i + 1)
    ELSE AirportLinesFrom(i + 1)

RECURSIVE AdmitAll(_, _)
AdmitAll(entries, rows) ==
    IF rows = <<>> THEN entries
    ELSE AdmitAll(AdmitParts(entries, rows[1]), Tail(rows))

\* C9 - Section scoping: the snapshot is what admission gives on exactly the
\* lines whose most recent section header is [Airports]; lines before any
\* header or after another header contribute nothing, and a later [Airports]
\* header resumes admission.
SectionScoping ==
    Parsed =>
        /\ Snapshot = AdmitAll(<<>>, AirportLinesFrom(1))
        /\ \A k \in 1..Len(Snapshot) :
              \E i \in 1..Len(Lines) : InAirportsAt(i) /\ CodeAt(i) = Snapshot[k].icao

\* A well-formed line outside the airports section that left no record, and a
\* record admitted after a later [Airports] header
SectionScopingWitness ==
    /\ Parsed
    /\ \E i, h, j \in 1..Len(Lines) :
          /\ i < h /\ h < j
          /\ DataAt(i) /\ ~InAirportsAt(i) /\ Len(PartsAt(i)) >= 7
          /\ ~has(Snapshot, CodeAt(i))
          /\ TrimmedAt(h) = AirportsHeader
          /\ CandidateAt(j)
          /\ has(Snapshot, CodeAt(j))

\* The name contains the term when both are compared in lower case
ContainsIgnoringCase(name, term) ==
    \E offset \in 0..(Len(name) - Len(term)) :
        \A k \in 1..Len(term) : LowerChar(name[offset + k]) = LowerChar(term[k])

\* The positions, in insertion order, of the records whose name matches
MatchingPositions(term) ==
    {k \in 1..Len(Snapshot) : ContainsIgnoringCase(Snapshot[k].name, term)}

\* C10 - For every term and every limit >= 1, searchAirportsByName returns
\* exactly the first min(limit, m) matching records in insertion order.
SearchReturnsFirstMatches ==
    Loaded /\ returned["c1"].request.fn = "searchAirportsByName"
           /\ returned["c1"].request.limit >= 1 =>
        LET term    == returned["c1"].request.searchTerm
            limit   == returned["c1"].request.limit
            results == returned["c1"].results
            m       == Cardinality(MatchingPositions(term))
            nth(n)  == CHOOSE k \in MatchingPositions(term) :
                           Cardinality({j \in MatchingPositions(term) : j < k}) = n - 1
        IN  /\ Len(results) = IF limit < m THEN limit ELSE m
            /\ \A n \in 1..Len(results) : results[n] = Snapshot[nth(n)]

\* A search with more matches than the limit, cut at the limit
SearchReturnsFirstMatchesWitness ==
    /\ Loaded
    /\ returned["c1"].request.fn = "searchAirportsByName"
    /\ returned["c1"].request.limit >= 1
    /\ Cardinality(MatchingPositions(returned["c1"].request.searchTerm))
          > returned["c1"].request.limit
    /\ Len(returned["c1"].results) = returned["c1"].request.limit

\* C24 - For every term and every limit >= 0, limit = 0 included,
\* searchAirportsByName returns at most limit records.
SearchTruncatedToLimit ==
    Loaded /\ returned["c1"].request.fn = "searchAirportsByName" =>
        Len(returned["c1"].results) <= returned["c1"].request.limit

-----------------------------------------------------------------------------
(* The airspace claims, on a detectCurrentFIR call that classified the point *)

Classified == firCall.pc = "done" /\ firCall.data = "decoded"

\* The point is inside ring 0 and outside every ring of index > 0
InsideRings(point, polygon) ==
    \A k \in 1..Len(polygon) : RingInside(point, polygon[k]) = (k = 1)

\* The feature contains the point, read off its geometry
FeatureContains(point, feature) ==
    \/ /\ feature.geometry.type = "Polygon"
       /\ InsideRings(point, feature.geometry.coordinates)
    \/ /\ feature.geometry.type = "MultiPolygon"
       /\ \E k \in 1..Len(feature.geometry.coordinates) :
              InsideRings(point, feature.geometry.coordinates[k])

ContainingFeatures ==
    {i \in 1..Len(boundaries) : FeatureContains(firCall.pilotPoint, boundaries[i])}

LandFeatures == {i \in ContainingFeatures : boundaries[i].properties.oceanic # <<"1">>}

First(positions) == CHOOSE i \in positions : \A j \in positions : i <= j

\* C11 - For every polygon with at least one ring and every point,
\* isPointInPolygon returns true iff ray casting puts the point inside ring 0
\* and outside every ring of index > 0.
PolygonContainmentWithHoles ==
    Classified =>
        \A i \in 1..Len(boundaries) :
            /\ boundaries[i].geometry.type = "Polygon"
            /\ Len(boundaries[i].geometry.coordinates) >= 1
            => firCall.isMatch[i] =
                   InsideRings(firCall.pilotPoint, boundaries[i].geometry.coordinates)

\* The point (3, 3) in the hole of the square FIR is not contained
PolygonContainmentWitness ==
    /\ Classified
    /\ firCall.pilotPoint = <<3, 3>>
    /\ \E i \in 1..Len(boundaries) :
           /\ boundaries[i].properties.id = <<"K","Z">>
           /\ boundaries[i].geometry.type = "Polygon"
           /\ Len(boundaries[i].geometry.coordinates) = 2
           /\ RingInside(firCall.pilotPoint, boundaries[i].geometry.coordinates[1])
           /\ RingInside(firCall.pilotPoint, boundaries[i].geometry.coordinates[2])
           /\ ~firCall.isMatch[i]

\* C12 - A MultiPolygon feature contains the point iff at least one of its
\* polygons does, each polygon judged by its own exterior ring and holes.
MultiPolygonContainment ==
    Classified =>
        \A i \in 1..Len(boundaries) :
            boundaries[i].geometry.type = "MultiPolygon"
            => firCall.isMatch[i] =
                   \E k \in 1..Len(boundaries[i].geometry.coordinates) :
                       InsideRings(firCall.pilotPoint,
                                   boundaries[i].geometry.coordinates[k])

\* A point in the hole of one polygon and inside another polygon of the feature
MultiPolygonWitness ==
    /\ Classified
    /\ \E i \in 1..Len(boundaries) :
           LET polygons == boundaries[i].geometry.coordinates
           IN  /\ boundaries[i].geometry.type = "MultiPolygon"
               /\ \E k \in 1..Len(polygons) :
                      /\ Len(polygons[k]) >= 2
                      /\ RingInside(firCall.pilotPoint, polygons[k][2])
                      /\ ~InsideRings(firCall.pilotPoint, polygons[k])
               /\ \E k \in 1..Len(polygons) : InsideRings(firCall.pilotPoint, polygons[k])
               /\ firCall.isMatch[i]

EmptyPolygonContainsNothing ==
    Classified =>
        \A i \in 1..Len(boundaries) :
            /\ boundaries[i].geometry.type = "Polygon"
            /\ Len(boundaries[i].geometry.coordinates) = 0
            => /\ ~firCall.isMatch[i]
               /\ \A k \in 1..Len(firCall.matchingFIRs) :
                      firCall.matchingFIRs[k].id # boundaries[i].properties.id

\* C20 - Across detectCurrentFIR calls the boundary set and the FIR names are
\* fetched at most once.
AirspaceIndexLoadedOnce ==
    boundariesFetchCount <= 1 /\ firNamesFetchCount <= 1

-----------------------------------------------------------------------------
(* The weather claims *)

CeilingHeights(d) ==
    {d.clouds[i].height : i \in {j \in 1..Len(d.clouds) : IsCeilingLayer(d.clouds[j])}}

\* The height of the lowest BKN or OVC layer, <<>> without such a layer
LowestCeiling(d) ==
    IF CeilingHeights(d) = {} THEN <<>>
    ELSE <<CHOOSE h \in CeilingHeights(d) : \A g \in CeilingHeights(d) : h <= g>>

\* The height of the first BKN or OVC layer, <<>> without such a layer
FirstCeiling(d) ==
    IF FindCeilingLayer(d.clouds) = <<>> THEN <<>>
    ELSE <<FindCeilingLayer(d.clouds)[1].height>>

\* C15 - With only a missing visibility replaced by 10 and only a missing
\* ceiling by 10000, the category is the one of the rule table, a visibility
\* of 0 and a ceiling of 0 included.
CategoryFollowsRuleTable ==
    flightCategory # <<>> =>
        flightCategory[1] =
            CategoryOf(OrDefaultIfMissing(decoded.visibility, DefaultVisibility * VisUnit),
                       OrDefaultIfMissing(FirstCeiling(decoded), DefaultCeiling))

\* C16 - The ceiling used is the minimum height over all BKN and OVC layers,
\* whatever the order of the layers.
CeilingIsLowestLayer ==
    flightCategory # <<>> =>
        /\ CeilingUsed(decoded) = OrDefaultIfMissing(LowestCeiling(decoded), DefaultCeiling)
        /\ flightCategory[1] =
               CategoryOf(VisibilityUsed(decoded),
                          OrDefaultIfMissing(LowestCeiling(decoded), DefaultCeiling))

Severity(category) ==
    CASE category = "VFR"  -> 0
      [] category = "MVFR" -> 1
      [] category = "IFR"  -> 2
      [] category = "LIFR" -> 3

\* A report of visibility v with one overcast layer at c feet
Reported(v, c) ==
    [visibility |-> <<v>>, clouds |-> <<[quantity |-> "OVC", height |-> c]>>]

\* C29 - For visibilities v1 <= v2 and ceilings c1 <= c2, 0 included, the
\* category for (v1, c1) is at least as severe as the one for (v2, c2).
CategoryMonotone ==
    \A v1 \in 0..(MaxVisibility * VisUnit), c1 \in Heights :
        flightCategory # <<>> /\ decoded = Reported(v1, c1) =>
            \A v2 \in v1..(MaxVisibility * VisUnit), c2 \in {h \in Heights : c1 <= h} :
                Severity(flightCategory[1])
                    >= Severity(getFlightCategory(Reported(v2, c2)))

-----------------------------------------------------------------------------
(* The ETA claims *)

\* C17 - For every distance and every groundspeed > 0 the minutes of the
\* duration are in 0..59.
MinutesBelowSixty ==
    etaData # <<>> => etaData[1].duration.minutes \in 0..59

ArrivalAirport ==
    IF pilot.flight_plan = <<>> THEN <<>>
    ELSE get(cachedAirports[1].entries, toUpperCase(pilot.flight_plan[1].arrival))

\* groundspeed <= 0, no arrival, an airport that the snapshot lacks, or
\* coordinates that are not numbers
NoEtaCase ==
    \/ pilot.groundspeed <= 0
    \/ pilot.flight_plan = <<>>
    \/ pilot.flight_plan[1].arrival = <<>>
    \/ ArrivalAirport = <<>>
    \/ ArrivalAirport[1].latitude.isNaN
    \/ ArrivalAirport[1].longitude.isNaN

\* C18 - calculateETA resolves with null whenever groundspeed <= 0, the flight
\* plan has no arrival, the airport is not in the snapshot, or its coordinates
\* are not numbers.
NoEtaOnInvalidInput ==
    etaResolved /\ NoEtaCase => etaData = <<>>

\* A moving pilot bound for an airport whose latitude is NaN gets no ETA
NoEtaOnInvalidInputWitness ==
    /\ etaResolved
    /\ pilot.groundspeed > 0
    /\ ArrivalAirport # <<>>
    /\ ArrivalAirport[1].latitude.isNaN
    /\ etaData = <<>>

\* C25 - With groundspeed > 0 and an arrival airport in the snapshot whose
\* latitude and longitude are numbers, 0 included, calculateETA returns a
\* result whose duration is that of distance / groundspeed.
EtaOnValidInput ==
    etaResolved /\ ~NoEtaCase =>
        /\ etaData # <<>>
        /\ etaData[1].duration.hours =
               IF etaData[1].distance >= pilot.groundspeed
               THEN <<etaData[1].distance \div pilot.groundspeed>> ELSE <<>>

-----------------------------------------------------------------------------
(* The failure claims *)

BoundariesFailed ==
    firCall.boundariesResponse = "rejected" \/ firCall.data = "failed"

\* The load of the airport dataset failed
DatasetFailed == cachedAirports # <<>> /\ parseCount = 0

\* C19 (as stated) - If the boundary set or the FIR names cannot be fetched or
\* decoded, detectCurrentFIR resolves to null.
AnyFailureGivesNull ==
    firCall.pc = "done" /\ (BoundariesFailed \/ firCall.firNamesFailed) =>
        currentFIR = <<>>

\* C19 - A failed dataset load resolves with an empty Map; a failed boundary
\* set resolves detectCurrentFIR to null; with only the FIR names failed,
\* detectCurrentFIR resolves with the FIR of the boundary set, named by its id.
FailuresAreAbsorbed ==
    /\ DatasetFailed =>
           /\ cachedAirports[1].entries = <<>>
           /\ returned["c1"].map = cachedAirports
    /\ firCall.pc = "done" /\ BoundariesFailed => currentFIR = <<>>
    /\ Classified /\ firCall.firNamesFailed =>
           /\ (currentFIR = <<>>) = (ContainingFeatures = {})
           /\ currentFIR # <<>> => currentFIR[1].name = currentFIR[1].id

\* The dataset load failed, and a call whose FIR names failed found a FIR
FailuresAreAbsorbedWitness ==
    /\ DatasetFailed
    /\ returned["c1"].map = cachedAirports
    /\ Classified
    /\ firCall.firNamesFailed
    /\ currentFIR # <<>>
    /\ currentFIR[1].name = currentFIR[1].id

\* The first call's Map is cached and no line loop has run: its load failed
FirstLoadFailed ==
    cachedAirports # <<>> /\ cachedAirports[1].id = 1 /\ parseCount = 0

\* C30 - Once the first parseVatspyData call has failed, the Map it cached is
\* the one every later call returns, no load is attempted again and every
\* getAirportByIcao returns null.
FailedLoadMemoized ==
    [][FirstLoadFailed =>
          /\ cachedAirports' = cachedAirports
          /\ fetchCount' = fetchCount
          /\ \A p \in Callers :
                 returned'[p] # returned[p] =>
                     /\ returned'[p].map = cachedAirports
                     /\ returned'[p].airport = <<>>]_vars

-----------------------------------------------------------------------------
(* The bearing claim *)

\* C21 - Whatever the two points are, calculateBearing returns a bearing r
\* with 0 <= r < 360: adding 360 to an angle between -180 and 180 and taking
\* the remainder by 360 gives neither a negative value nor 360.
BearingInRange ==
    rotation # <<>> => 0 <= rotation[1] /\ rotation[1] < Degrees(360)

\* A negative angle too small to show next to 360: the sum is 360, the bearing 0
BearingInRangeWitness ==
    /\ rotation # <<>>
    /\ bearing < 0
    /\ Sum(bearing, Degrees(360)) = Degrees(360)
    /\ rotation[1] = 0

-----------------------------------------------------------------------------
(* The tracking claims *)

\* The request r is answered in this step with the data of the feed
Answered(r) == r \in inFlight /\ r \notin inFlight' /\ r.ok

SearchSucceeds == loading /\ ~loading' /\ displayedPilot' # <<>>

UserToggles == displayedPilot # <<>> /\ displayedPilot' = displayedPilot /\ loading' = loading

\* C22 - When the answer to a refresh request does not hold the tracked
\* callsign, autoRefresh becomes false and the error is 'Pilot is no longer
\* online on VATSIM.'; once the effect has run with autoRefresh false no
\* interval is active, no refresh request is sent, and autoRefresh becomes
\* true again only when a search succeeds or the user toggles it.
OfflineDetection ==
    /\ [][\A r \in inFlight : Answered(r) /\ r.data = <<>> =>
              autoRefresh' = FALSE /\ error' = OfflineMessage]_vars
    /\ [](~autoRefresh /\ ~effectDue => refreshIntervalRef = <<>>)
    /\ [][requestCount' # requestCount => autoRefresh \/ effectDue]_vars
    /\ [][~autoRefresh /\ autoRefresh' => SearchSucceeds \/ UserToggles]_vars

\* The pilot was found offline by a refresh and the effect has stopped the interval
OfflineDetectionWitness ==
    /\ error = OfflineMessage
    /\ ~autoRefresh
    /\ ~effectDue
    /\ refreshIntervalRef = <<>>
    /\ displayedPilot # <<>>
    /\ requestCount > 0

\* C23 - Once autoRefresh is false, no answer to a refresh request changes
\* the displayed pilot, not even the answer to a request sent before
\* autoRefresh became false.
NoUpdateWhileRefreshIsOff ==
    [][~autoRefresh /\ (\E r \in inFlight : Answered(r)) =>
           displayedPilot' = displayedPilot]_vars

Position(p) == <<p.longitude, p.latitude>>

\* C27 - After every refresh that found the pilot at a latitude or longitude
\* other than the displayed one, currentFIR is the region detected for the
\* new position, also when altitude, groundspeed and heading did not change.
FirFollowsPosition ==
    [][\A r \in inFlight :
           /\ Answered(r)
           /\ r.data # <<>>
           /\ displayedPilot # <<>>
           /\ Position(r.data[1]) # Position(displayedPilot[1])
           => currentFIR' = DetectedFIR(r.data[1])]_vars

\* C28 - The displayed pilot is never replaced by the data of a refresh
\* request that was sent before the request whose data is displayed.
DisplayNeverRegresses ==
    [][\A r \in inFlight : Answered(r) /\ r.data # <<>> => r.seq >= shownRequest]_vars

=============================================================================
